---- MODULE Spec2Model ----
(***************************************************************************)
(* The add-product modal of src/components/AddProductModal.tsx as a state  *)
(* machine: the form fields, the size selection and the stock map, the     *)
(* file read and the camera request in flight, the camera streams the      *)
(* platform has handed out, and the two callbacks of the parent.            *)
(*                                                                         *)
(* Texts are sequences of one-character strings.  JavaScript numbers are   *)
(* records [kind, neg, mant, exp]: NaN, an infinity, or the finite value   *)
(* (-1)^neg * mant * 10^exp with mant free of trailing zeros.  Only the    *)
(* range of a double is modelled (overflow to Infinity, underflow to 0),   *)
(* not the rounding of its significand; significands have at most nine     *)
(* significant digits.                                                     *)
(***************************************************************************)
EXTENDS Integers, Sequences, FiniteSets, TLC

VARIABLES
    name,          \* useState name (line 14): text
    price,         \* useState price (line 15): text, the value of the number input
    image,         \* useState image (line 16): "" | NullImage | a data URI
    type,          \* useState type (line 17)
    currentSizes,  \* useState currentSizes (line 18): Selected Sizes, in insertion order
    sizes,         \* useState sizes (line 19): Stock Map, label -> number
    videoRef,      \* videoRef.current (line 28): "null" or "video"
    srcObject,     \* videoRef.current.srcObject: 0 or the stream bound to the preview
    streamRef,     \* streamRef.current (line 29): 0 (null) or a stream
    streams,       \* the streams getUserMedia has granted: "live" or "stopped" tracks
    camPending,    \* getUserMedia requests not yet resolved (line 61)
    readsPending,  \* FileReader reads not yet ended (line 55)
    alert,         \* the window.alert on screen ("none" when there is none)
    mounted,       \* the parent still renders the modal
    calls,         \* the calls made to the props onAdd and onClose, in order
    invoked        \* the function last run on its own, and the parity of such runs

vars == <<name, price, image, type, currentSizes, sizes, videoRef, srcObject,
          streamRef, streams, camPending, readsPending, alert, mounted, calls,
          invoked>>

form == <<name, price, image, type, currentSizes, sizes>>
camera == <<videoRef, srcObject, streamRef, streams>>

-----------------------------------------------------------------------------
(* Bounds of the model *)

\* the user works with the first MaxLabels size labels, taken in turn from
\* the two catalogs
MaxLabels == 2
\* streams granted over the lifetime of the modal
MaxStreams == 2
\* file reads in flight at once
MaxReads == 1

-----------------------------------------------------------------------------
(* Size catalogs *)

clothingSizes == <<"S", "M", "L", "XL", "XXL", "XXXL", "4XL", "5XL", "6XL">>
shoeSizes == <<"36", "37", "38", "39", "40", "41", "42", "43", "44", "45">>

Range(s) == {s[i] : i \in DOMAIN s}
Min(a, b) == IF a < b THEN a ELSE b

ProductTypes == {"clothing", "shoes"}
Catalog(t) == IF t = "clothing" THEN clothingSizes ELSE shoeSizes
AllLabels == Range(clothingSizes) \cup Range(shoeSizes)

\* the labels whose buttons the modelled user presses
UserLabels ==
    {clothingSizes[i] : i \in 1..Min((MaxLabels + 1) \div 2, Len(clothingSizes))}
        \cup {shoeSizes[i] : i \in 1..Min(MaxLabels \div 2, Len(shoeSizes))}

-----------------------------------------------------------------------------
(* JavaScript numbers *)

NaN == [kind |-> "NaN", neg |-> FALSE, mant |-> 0, exp |-> 0]
Infinity(neg) == [kind |-> "Inf", neg |-> neg, mant |-> 0, exp |-> 0]
Finite(neg, mant, exp) == [kind |-> "Fin", neg |-> neg, mant |-> mant, exp |-> exp]
Zero == Finite(FALSE, 0, 0)

\* the largest double is 1.7976931348623157e308; a decimal above
\* 1.79769313e308 (nine digits) is read as Infinity
DoubleMaxOrder == 308
DoubleMaxLead == 179769313
\* half the smallest double is 2.4703282292e-324; a decimal of at most
\* 2.47032822e-324 is read as 0
DoubleMinOrder == 324
DoubleMinLead == 247032822

RECURSIVE Pow10(_)
Pow10(k) == IF k <= 0 THEN 1 ELSE 10 * Pow10(k - 1)

RECURSIVE NumDigits(_)
NumDigits(m) == IF m < 10 THEN 1 ELSE 1 + NumDigits(m \div 10)

\* the double nearest to (-1)^neg * mant * 10^exp, as to its range
ToDouble(neg, mant, exp) ==
    LET nd == NumDigits(mant)
        order == nd + exp - 1
        lead == mant * Pow10(NumDigits(DoubleMaxLead) - nd)
    IN  IF mant = 0 THEN Finite(neg, 0, 0)
        ELSE IF order > DoubleMaxOrder
                \/ (order = DoubleMaxOrder /\ lead > DoubleMaxLead)
             THEN Infinity(neg)
        ELSE IF order < 0 - DoubleMinOrder
                \/ (order = 0 - DoubleMinOrder /\ lead <= DoubleMinLead)
             THEN Finite(neg, 0, 0)
        ELSE Finite(neg, mant, exp)

\* x || 0 and !x for a number x: NaN, 0 and -0 are falsy
NumTruthy(x) == x.kind = "Inf" \/ (x.kind = "Fin" /\ x.mant # 0)
\* x <= 0
NumLeqZero(x) ==
    \/ (x.kind = "Inf" /\ x.neg)
    \/ (x.kind = "Fin" /\ (x.neg \/ x.mant = 0))
\* x >= 0
NumGeqZero(x) ==
    \/ (x.kind = "Inf" /\ ~x.neg)
    \/ (x.kind = "Fin" /\ (~x.neg \/ x.mant = 0))

-----------------------------------------------------------------------------
(* Texts *)

DigitChars == <<"0", "1", "2", "3", "4", "5", "6", "7", "8", "9">>
IsDigit(c) == c \in Range(DigitChars)
DigitVal(c) == (CHOOSE i \in DOMAIN DigitChars : DigitChars[i] = c) - 1
IsSpace(c) == c = " "

\* the index after the run of digits of s that starts at i
DigitsEnd(s, i) ==
    CHOOSE j \in i..(Len(s) + 1) :
        /\ \A k \in i..(j - 1) : IsDigit(s[k])
        /\ (j = Len(s) + 1 \/ ~IsDigit(s[j]))

\* the index of the first character of s that is no white space
SpaceEnd(s) ==
    CHOOSE j \in 1..(Len(s) + 1) :
        /\ \A k \in 1..(j - 1) : IsSpace(s[k])
        /\ (j = Len(s) + 1 \/ ~IsSpace(s[j]))

RECURSIVE DigitsToNat(_)
DigitsToNat(d) ==
    IF d = <<>> THEN 0
    ELSE 10 * DigitsToNat(SubSeq(d, 1, Len(d) - 1)) + DigitVal(d[Len(d)])

\* the number written by the digits d, times 10^e
Decimal(neg, d, e) ==
    LET nz == {i \in DOMAIN d : d[i] # "0"}
    IN  IF nz = {} THEN Finite(neg, 0, 0)
        ELSE LET first == CHOOSE i \in nz : \A j \in nz : i <= j
                 last == CHOOSE i \in nz : \A j \in nz : j <= i
             IN  ToDouble(neg, DigitsToNat(SubSeq(d, first, last)),
                          e + (Len(d) - last))

InfinityChars == <<"I", "n", "f", "i", "n", "i", "t", "y">>

\* parseFloat(s) (line 102): the longest prefix of the trimmed text that is a
\* decimal literal
parseFloat(s) ==
    LET n == Len(s)
        start == SpaceEnd(s)
        hasSign == start <= n /\ s[start] \in {"+", "-"}
        neg == hasSign /\ s[start] = "-"
        p == IF hasSign THEN start + 1 ELSE start
        isInf == p + Len(InfinityChars) - 1 <= n
                    /\ SubSeq(s, p, p + Len(InfinityChars) - 1) = InfinityChars
        intEnd == DigitsEnd(s, p)
        hasDot == intEnd <= n /\ s[intEnd] = "."
        fracEnd == IF hasDot THEN DigitsEnd(s, intEnd + 1) ELSE intEnd
        nInt == intEnd - p
        nFrac == IF hasDot THEN fracEnd - intEnd - 1 ELSE 0
        hasE == fracEnd <= n /\ s[fracEnd] \in {"e", "E"}
        hasESign == hasE /\ fracEnd + 1 <= n /\ s[fracEnd + 1] \in {"+", "-"}
        eStart == IF hasESign THEN fracEnd + 2 ELSE fracEnd + 1
        eEnd == IF hasE THEN DigitsEnd(s, eStart) ELSE eStart
        hasExp == hasE /\ eEnd > eStart
        eAbs == IF hasExp THEN DigitsToNat(SubSeq(s, eStart, eEnd - 1)) ELSE 0
        eVal == IF hasESign /\ s[fracEnd + 1] = "-" THEN 0 - eAbs ELSE eAbs
        digits == SubSeq(s, p, intEnd - 1)
                    \o (IF hasDot THEN SubSeq(s, intEnd + 1, fracEnd - 1) ELSE <<>>)
    IN  IF isInf THEN Infinity(neg)
        ELSE IF nInt + nFrac = 0 THEN NaN
        ELSE Decimal(neg, digits, eVal - nFrac)

\* parseInt(s) (line 40): the longest prefix of the trimmed text that is a
\* decimal integer (the hexadecimal form 0x... cannot come out of a number input)
parseInt(s) ==
    LET n == Len(s)
        start == SpaceEnd(s)
        hasSign == start <= n /\ s[start] \in {"+", "-"}
        neg == hasSign /\ s[start] = "-"
        p == IF hasSign THEN start + 1 ELSE start
        intEnd == DigitsEnd(s, p)
    IN  IF intEnd = p THEN NaN ELSE Decimal(neg, SubSeq(s, p, intEnd - 1), 0)

\* String.prototype.trim (lines 97, 114)
trim(s) ==
    IF \A i \in DOMAIN s : IsSpace(s[i]) THEN <<>>
    ELSE LET ns == {i \in DOMAIN s : ~IsSpace(s[i])}
             first == CHOOSE i \in ns : \A j \in ns : i <= j
             last == CHOOSE i \in ns : \A j \in ns : j <= i
         IN  SubSeq(s, first, last)

\* HTML's "valid floating-point number": an optional "-", digits and/or "."
\* digits, an optional exponent
IsValidFloat(s) ==
    LET n == Len(s)
        p == IF n >= 1 /\ s[1] = "-" THEN 2 ELSE 1
        intEnd == DigitsEnd(s, p)
        hasDot == intEnd <= n /\ s[intEnd] = "."
        fracEnd == IF hasDot THEN DigitsEnd(s, intEnd + 1) ELSE intEnd
        nInt == intEnd - p
        nFrac == IF hasDot THEN fracEnd - intEnd - 1 ELSE 0
        hasE == fracEnd <= n /\ s[fracEnd] \in {"e", "E"}
        hasESign == hasE /\ fracEnd + 1 <= n /\ s[fracEnd + 1] \in {"+", "-"}
        eStart == IF hasESign THEN fracEnd + 2 ELSE fracEnd + 1
        eEnd == IF hasE THEN DigitsEnd(s, eStart) ELSE fracEnd
    IN  /\ nInt + nFrac > 0
        /\ hasDot => nFrac > 0
        /\ hasE => eEnd > eStart
        /\ eEnd = n + 1

\* e.target.value of an <input type="number"> (lines 162, 221) after the user
\* typed s: the value sanitization of the number state keeps a valid
\* floating-point number and turns anything else into the empty string
NumberInputValue(s) == IF IsValidFloat(s) THEN s ELSE <<>>

-----------------------------------------------------------------------------
(* What the user types and what the platform delivers *)

\* texts typed into the name field
NameTyped == {<<>>, <<" ">>, <<" ", "a", " ">>}

\* texts typed into the price field
PriceTyped ==
    { <<>>, <<"0">>, <<"-", "5">>, <<"2", ".", "5">>, <<"x">>, <<"5", "x">>,
      <<"1", "e", "9", "9", "9">> }

\* 1 followed by so many zeros that no double holds it
LongDigits == [i \in 1..(DoubleMaxOrder + 2) |-> IF i = 1 THEN "1" ELSE "0"]

\* texts typed into a stock field
StockTyped == { <<>>, <<"3", ".", "7">>, <<"-", "2">>, <<"x">>, LongDigits }

NullImage == "null"
FileDataURI == "data:image/png;base64"
JpegDataURI == "data:image/jpeg;base64"
\* reader.result at loadend (line 52): the data URI, or null when the read failed
ReadResults == {FileDataURI, NullImage}
\* image as a condition (lines 97, 238)
ImageTruthy(img) == img \notin {"", NullImage}

-----------------------------------------------------------------------------
(* The parent *)

OnAddCall(product) == [cb |-> "onAdd", arg |-> product]
OnCloseCall == [cb |-> "onClose", arg |-> "none"]

\* whether the parent still renders the modal after the calls a handler made
\* to its props: onClose makes it stop rendering the modal (the draft is
\* discarded on close)
ParentRenders(made) == ~(\E i \in DOMAIN made : made[i].cb = "onClose")

-----------------------------------------------------------------------------
(* Initial state: lines 14-29 *)

Init ==
    /\ name = <<>>
    /\ price = <<>>
    /\ image = ""
    /\ type = "clothing"
    /\ currentSizes = <<>>
    /\ sizes = [l \in AllLabels |-> Zero]
    /\ videoRef = "null"
    /\ srcObject = 0
    /\ streamRef = 0
    /\ streams = <<>>
    /\ camPending = 0
    /\ readsPending = 0
    /\ alert = "none"
    /\ mounted = TRUE
    /\ calls = <<>>
    /\ invoked = <<"none", 0>>

\* a handler of the rendered modal can run: the modal is rendered and no
\* alert blocks the page
Interactive == mounted /\ alert = "none"

-----------------------------------------------------------------------------
(* Form fields *)

\* line 150
setName(text) ==
    /\ Interactive
    /\ name' = text
    /\ UNCHANGED <<price, image, type, currentSizes, sizes, camera, camPending,
                   readsPending, alert, mounted, calls,
                   invoked>>

\* the value of the price field for each text typed into it, computed once
PriceValueOf == [s \in PriceTyped |-> NumberInputValue(s)]

\* line 164
setPrice(typed) ==
    /\ Interactive
    /\ price' = PriceValueOf[typed]
    /\ UNCHANGED <<name, image, type, currentSizes, sizes, camera, camPending,
                   readsPending, alert, mounted, calls,
                   invoked>>

\* TypeChange without line 181
TypeChangeKeepSizes(newType) == [type |-> newType, currentSizes |-> currentSizes]

\* TypeChange with line 181 run only on the way to shoes
TypeChangeClearForShoes(newType) ==
    [type |-> newType,
     currentSizes |-> IF newType = "shoes" THEN <<>> ELSE currentSizes]

\* lines 179-182: the select fires onChange when its value changes
TypeChange(newType) == [type |-> newType, currentSizes |-> <<>>]

setType(newType) ==
    /\ Interactive
    /\ newType # type
    /\ type' = TypeChange(newType).type
    /\ currentSizes' = TypeChange(newType).currentSizes
    /\ UNCHANGED <<name, price, image, sizes, camera, camPending, readsPending,
                   alert, mounted, calls,
                   invoked>>

Includes(seq, x) == \E i \in DOMAIN seq : seq[i] = x
Filter(seq, x) == SelectSeq(seq, LAMBDA s : s # x)

\* Toggled without the includes test of line 33
ToggledAlwaysAppend(prev, size) == Append(prev, size)

\* lines 32-36
Toggled(prev, size) ==
    IF Includes(prev, size) THEN Filter(prev, size) ELSE Append(prev, size)

\* lines 31-37; the buttons of line 198 are those of the current type's catalog
handleSizeToggle(size) ==
    /\ Interactive
    /\ size \in Range(Catalog(type))
    /\ currentSizes' = Toggled(currentSizes, size)
    /\ UNCHANGED <<name, price, image, type, sizes, camera, camPending,
                   readsPending, alert, mounted, calls,
                   invoked>>

\* line 40: parseInt(value) || 0
stockValue(value) ==
    LET parsed == parseInt(value) IN IF NumTruthy(parsed) THEN parsed ELSE Zero

\* line 43: stockValue >= 0 ? stockValue : 0
StoredStock(value) ==
    LET v == stockValue(value) IN IF NumGeqZero(v) THEN v ELSE Zero

\* the stored quantity for each text typed into a stock field, computed once
StockOf == [s \in StockTyped |-> StoredStock(NumberInputValue(s))]

\* StockUpdate without the spread of line 42: the other entries start over
StockUpdateResetOthers(prev, size, typed) ==
    [l \in DOMAIN prev |-> IF l = size THEN StockOf[typed] ELSE Zero]

\* lines 41-44
StockUpdate(prev, size, typed) == [prev EXCEPT ![size] = StockOf[typed]]

\* lines 39-45; a stock field exists for each selected size (line 217)
handleStockChange(size, typed) ==
    /\ Interactive
    /\ Includes(currentSizes, size)
    /\ sizes' = StockUpdate(sizes, size, typed)
    /\ UNCHANGED <<name, price, image, type, currentSizes, camera, camPending,
                   readsPending, alert, mounted, calls,
                   invoked>>

-----------------------------------------------------------------------------
(* Image *)

\* lines 47-57: a file was picked, the read starts; the upload button is
\* rendered while there is no image (line 238)
handleImageUpload ==
    /\ Interactive
    /\ ~ImageTruthy(image)
    /\ readsPending < MaxReads
    /\ readsPending' = readsPending + 1
    /\ UNCHANGED <<form, camera, camPending, alert, mounted, calls,
                   invoked>>

\* lines 51-54: the read ended; setImage on an unmounted component does nothing
readerLoadEnd(result) ==
    /\ alert = "none"
    /\ readsPending > 0
    /\ readsPending' = readsPending - 1
    /\ image' = IF mounted THEN result ELSE image
    /\ UNCHANGED <<name, price, type, currentSizes, sizes, camera, camPending,
                   alert, mounted, calls,
                   invoked>>

\* line 247
clearImage ==
    /\ Interactive
    /\ ImageTruthy(image)
    /\ image' = ""
    /\ UNCHANGED <<name, price, type, currentSizes, sizes, camera, camPending,
                   readsPending, alert, mounted, calls,
                   invoked>>

-----------------------------------------------------------------------------
(* Camera *)

\* lines 59-61: the camera button (line 265) is rendered while there is no image
startCamera ==
    /\ Interactive
    /\ ~ImageTruthy(image)
    /\ camPending + Len(streams) < MaxStreams
    /\ camPending' = camPending + 1
    /\ UNCHANGED <<form, camera, readsPending, alert, mounted, calls,
                   invoked>>

\* lines 62-65: getUserMedia resolved with a new stream
cameraGranted ==
    /\ alert = "none"
    /\ camPending > 0
    /\ camPending' = camPending - 1
    /\ LET stream == Len(streams) + 1
       IN  /\ streams' = Append(streams, "live")
           /\ srcObject' = IF videoRef # "null" THEN stream ELSE srcObject
           /\ streamRef' = stream
    /\ UNCHANGED <<form, videoRef, readsPending, alert, mounted, calls,
                   invoked>>

\* lines 66-69: getUserMedia rejected
cameraDenied ==
    /\ alert = "none"
    /\ camPending > 0
    /\ camPending' = camPending - 1
    /\ alert' = "camera"
    /\ UNCHANGED <<form, camera, readsPending, mounted, calls,
                   invoked>>

\* Stopped leaving the handle as it is (without line 90)
StoppedKeepHandle(ref, strs) ==
    IF ref # 0
    THEN [streamRef |-> ref, streams |-> [strs EXCEPT ![ref] = "stopped"]]
    ELSE [streamRef |-> ref, streams |-> strs]

\* lines 87-92, as an update of (streamRef, streams)
Stopped(ref, strs) ==
    IF ref # 0
    THEN [streamRef |-> 0, streams |-> [strs EXCEPT ![ref] = "stopped"]]
    ELSE [streamRef |-> ref, streams |-> strs]

\* the next value of invoked when the function f is run on its own
Run(f) == <<f, 1 - invoked[2]>>

\* lines 87-92, the function run on its own: its button is part of the
\* overlay of line 301, which the modal never renders
stopCamera ==
    /\ Interactive
    /\ streamRef' = Stopped(streamRef, streams).streamRef
    /\ streams' = Stopped(streamRef, streams).streams
    /\ invoked' = Run("stopCamera")
    /\ UNCHANGED <<form, videoRef, srcObject, camPending, readsPending, alert,
                   mounted, calls>>

\* lines 72-85, the function run on its own: without a video element
\* (line 73) or a 2d context (line 78) it does nothing
capturePhoto ==
    /\ Interactive
    /\ \E ctx \in BOOLEAN :
           IF videoRef # "null" /\ ctx
           THEN /\ image' = JpegDataURI
                /\ streamRef' = Stopped(streamRef, streams).streamRef
                /\ streams' = Stopped(streamRef, streams).streams
           ELSE UNCHANGED <<image, streamRef, streams>>
    /\ invoked' = Run("capturePhoto")
    /\ UNCHANGED <<name, price, type, currentSizes, sizes, videoRef, srcObject,
                   camPending, readsPending, alert, mounted, calls>>

\* the user dismisses the alert and the page runs again
dismissAlert ==
    /\ alert # "none"
    /\ alert' = "none"
    /\ UNCHANGED <<form, camera, camPending, readsPending, mounted, calls,
                   invoked>>

-----------------------------------------------------------------------------
(* Close and submit *)

\* lines 137 and 285: onClick={onClose}
CloseCalls == <<OnCloseCall>>

\* lines 137 and 285: both buttons call the prop onClose and nothing else
closeModal ==
    /\ Interactive
    /\ calls' = calls \o CloseCalls
    /\ mounted' = ParentRenders(CloseCalls)
    /\ UNCHANGED <<form, camera, camPending, readsPending, alert,
                   invoked>>

\* Validation without the image check of line 97
ValidationNoImageCheck(n, p, img) ==
    IF trim(n) = <<>> \/ p = <<>> THEN "fields"
    ELSE LET numericPrice == parseFloat(p)
         IN  IF numericPrice.kind = "NaN" \/ NumLeqZero(numericPrice)
             THEN "price"
             ELSE "ok"

\* lines 97-106: which check of handleSubmit stops the submit
Validation(n, p, img) ==
    IF trim(n) = <<>> \/ p = <<>> \/ ~ImageTruthy(img) THEN "fields"
    ELSE LET numericPrice == parseFloat(p)
         IN  IF numericPrice.kind = "NaN" \/ NumLeqZero(numericPrice)
             THEN "price"
             ELSE "ok"

\* lines 108-111
initialSizes == [l \in AllLabels |-> Zero]

\* EmittedSizes spreading the whole stock map instead of the selected entries
EmittedSizesAllStock(selected, stock) == [l \in AllLabels |-> stock[l]]

\* lines 118-123: initialSizes overridden by the entries of the selected sizes
EmittedSizes(selected, stock) ==
    [l \in AllLabels \cup Range(selected) |->
        IF Includes(selected, l)
        THEN (IF NumTruthy(stock[l]) THEN stock[l] ELSE Zero)
        ELSE initialSizes[l]]

\* lines 113-125
Product ==
    [name |-> trim(name),
     price |-> parseFloat(price),
     image |-> image,
     type |-> type,
     sizes |-> EmittedSizes(currentSizes, sizes),
     createdAt |-> "Date.now()"]

\* SubmitCalls with lines 127 and 128 swapped
SubmitCallsCloseFirst(product) == <<OnCloseCall, OnAddCall(product)>>

\* SubmitCalls without line 128
SubmitCallsNoClose(product) == <<OnAddCall(product)>>

\* lines 127-128
SubmitCalls(product) == <<OnAddCall(product), OnCloseCall>>

\* lines 94-129
handleSubmit ==
    /\ Interactive
    /\ LET verdict == Validation(name, price, image)
       IN  IF verdict # "ok"
           THEN /\ alert' = verdict
                /\ UNCHANGED <<mounted, calls>>
           ELSE /\ calls' = calls \o SubmitCalls(Product)
                /\ mounted' = ParentRenders(SubmitCalls(Product))
                /\ UNCHANGED alert
    /\ UNCHANGED <<form, camera, camPending, readsPending,
                   invoked>>

-----------------------------------------------------------------------------

\* stopCamera and capturePhoto are no steps of the modal: their buttons belong
\* to the overlay of line 301, rendered only when videoRef.current is set, and
\* videoRef is attached to the video element inside that overlay (line 305),
\* so videoRef.current stays null and the overlay is never rendered.
Next ==
    \/ \E text \in NameTyped : setName(text)
    \/ \E typed \in PriceTyped : setPrice(typed)
    \/ \E newType \in ProductTypes : setType(newType)
    \/ \E size \in UserLabels : handleSizeToggle(size)
    \/ \E size \in UserLabels, typed \in StockTyped : handleStockChange(size, typed)
    \/ handleImageUpload
    \/ \E result \in ReadResults : readerLoadEnd(result)
    \/ clearImage
    \/ startCamera
    \/ cameraGranted
    \/ cameraDenied
    \/ dismissAlert
    \/ closeModal
    \/ handleSubmit

Spec == Init /\ [][Next]_vars

\* the modal together with its functions stopCamera and capturePhoto run on
\* their own, the way a caller holding them would run them
NextHandlers ==
    \/ Next
    \/ stopCamera
    \/ capturePhoto

SpecHandlers == Init /\ [][NextHandlers]_vars

-----------------------------------------------------------------------------
(* Properties *)

OnAdds(c) == {i \in DOMAIN c : c[i].cb = "onAdd"}
OnCloses(c) == {i \in DOMAIN c : c[i].cb = "onClose"}
LiveStreams(strs) == {i \in DOMAIN strs : strs[i] = "live"}

\* C1: the size map of a request passed to onAdd has exactly the 19 labels of
\* the two catalogs as keys; a label selected at the submit carries the
\* quantity the stock map holds for it (what setStock stored last, 0 if it
\* never stored any), every other label carries 0.
C1_EmittedSizeMap ==
    [][ \A i \in OnAdds(calls') \ OnAdds(calls) :
            LET m == calls'[i].arg.sizes
            IN  /\ DOMAIN m = AllLabels
                /\ Cardinality(DOMAIN m) = 19
                /\ \A l \in AllLabels :
                       m[l] = IF Includes(currentSizes, l) THEN sizes[l]
                              ELSE Zero ]_vars

\* a request went out with a selected label of non-zero stock while another
\* label, edited but no longer selected, went out as 0
C1_Witness ==
    \E i \in OnAdds(calls) :
        /\ \E l \in AllLabels :
               Includes(currentSizes, l) /\ calls[i].arg.sizes[l] # Zero
        /\ \E l \in AllLabels :
               ~Includes(currentSizes, l) /\ sizes[l] # Zero
                   /\ calls[i].arg.sizes[l] = Zero

\* the conditions that block a submit
NameBlank == \A i \in DOMAIN name : name[i] = " "
PriceEmpty == price = <<>>
PriceNonNumeric == ~IsValidFloat(price)
PriceNotPositive == NumLeqZero(parseFloat(price))
ImageEmpty == image = ""
Blocking ==
    NameBlank \/ PriceEmpty \/ PriceNonNumeric \/ PriceNotPositive \/ ImageEmpty

\* C2: a submit in a state where the trimmed name is empty, or the price text
\* is empty, non-numeric, zero or negative, or the image is empty, only raises
\* a validation alert: it calls neither onAdd nor onClose, the modal stays and
\* the six form fields keep their values.
C2_BlockedSubmit ==
    [][ (handleSubmit /\ Blocking)
            => /\ alert' \in {"fields", "price"}
               /\ calls' = calls
               /\ mounted' = mounted
               /\ UNCHANGED form ]_vars

\* a submit was blocked by the price alone: name, price text and image passed
\* the first check
C2_Witness ==
    /\ alert = "price"
    /\ mounted
    /\ ~NameBlank /\ ~PriceEmpty /\ ~ImageEmpty /\ PriceNotPositive
    /\ calls = <<>>

\* C3: a step that closes the modal (it calls onClose: the header button, the
\* cancel button or a successful submit) leaves no stream with live tracks.
C3_CloseReleasesCamera ==
    [][ Len(calls') > Len(calls) /\ OnCloses(calls') # {}
            => LiveStreams(streams') = {} ]_vars

\* C4: no live stream exists that the stream handle does not reference.
C4_LiveStreamIsHeld ==
    \A i \in LiveStreams(streams) : streamRef = i

\* C5: a submit that passes the validation calls onAdd once with the built
\* request and then onClose once, and no other step calls onAdd.
C5_SubmitCallsAddThenClose ==
    [][ /\ (handleSubmit /\ Validation(name, price, image) = "ok")
            => calls' = calls \o <<OnAddCall(Product), OnCloseCall>>
        /\ OnAdds(calls') # OnAdds(calls)
            => handleSubmit /\ Validation(name, price, image) = "ok" ]_vars

\* a submit went through: onAdd first, onClose second, nothing else
C5_Witness ==
    /\ Len(calls) = 2
    /\ calls[1].cb = "onAdd"
    /\ calls[2].cb = "onClose"

\* C6: the selected sizes all belong to the catalog of the current type.
C6_SelectedWithinCatalog ==
    /\ type = "clothing" => Range(currentSizes) \subseteq Range(clothingSizes)
    /\ type = "shoes" => Range(currentSizes) \subseteq Range(shoeSizes)

\* a shoe size is selected after a clothing size had been selected and given
\* stock, and the type switched
C6_Witness ==
    /\ type = "shoes"
    /\ currentSizes # <<>>
    /\ \E l \in Range(clothingSizes) : sizes[l] # Zero

\* C7: a step that changes the product type leaves no size selected.
C7_TypeChangeEmptiesSelection ==
    [][ type' # type => currentSizes' = <<>> ]_vars

\* the type was switched back to clothing after a shoe size had been selected
\* and given stock; nothing is selected
C7_Witness ==
    /\ type = "clothing"
    /\ currentSizes = <<>>
    /\ \E l \in Range(shoeSizes) : sizes[l] # Zero

\* a non-negative integer
IsNonNegInteger(x) == x.kind = "Fin" /\ (~x.neg \/ x.mant = 0) /\ x.exp >= 0

\* C8: every value of the stock map is a non-negative integer.
C8_StockIsNonNegInteger ==
    \A l \in AllLabels : IsNonNegInteger(sizes[l])

\* C9: the price of every request passed to onAdd is a finite number above 0.
C9_PriceFinitePositive ==
    \A i \in OnAdds(calls) :
        LET p == calls[i].arg.price
        IN  p.kind = "Fin" /\ ~p.neg /\ p.mant > 0

\* C10: onAdd is called at most once over the life of the modal.
C10_AtMostOneRequest == Cardinality(OnAdds(calls)) <= 1

\* after the request went out a later event arrived (a camera request was
\* denied) and no second request followed
C10_Witness ==
    /\ Cardinality(OnAdds(calls)) = 1
    /\ alert = "camera"


NoDuplicates(seq) == \A i, j \in DOMAIN seq : seq[i] = seq[j] => i = j

C13_DenialLeavesNoCamera ==
    [][ alert = "none" /\ alert' = "camera"
            => /\ streamRef' = 0
               /\ LiveStreams(streams') = {}
               /\ UNCHANGED form ]_vars

\* C14: a step in which a camera request is granted while the modal is open
\* binds the new stream to the preview video and makes the stream handle
\* reference it.
C14_GrantBindsPreview ==
    [][ mounted /\ Len(streams') > Len(streams)
            => /\ srcObject' = Len(streams')
               /\ streamRef' = Len(streams') ]_vars

\* C15: while the modal is open and a camera stream is held, the overlay with
\* the capture and cancel buttons is rendered (videoRef.current is set), so
\* that the user can go on to the captured image.
C15_CameraControlsAvailable ==
    mounted /\ streamRef # 0 => videoRef # "null"

\* C17: a stream granted after the modal has closed is not left live.
C17_LateGrantNotLive ==
    [][ ~mounted /\ Len(streams') > Len(streams)
            => streams'[Len(streams')] # "live" ]_vars

\* C18: a step changes at most one entry of the stock map, that of a selected
\* size, and changes nothing else of the form with it; so a step that changes
\* the selection, the type or the image, or raises an alert, leaves the stock
\* map as it is.
C18_StockChangesOnlyBySetStock ==
    [][ sizes' # sizes
            => /\ \E size \in Range(currentSizes) :
                      \A l \in AllLabels : l # size => sizes'[l] = sizes[l]
               /\ UNCHANGED <<name, price, image, type, currentSizes, alert,
                              mounted, calls>> ]_vars

\* a size that was given stock is no longer selected and still has its stock,
\* while another size is selected
C18_Witness ==
    /\ \E l \in AllLabels : ~Includes(currentSizes, l) /\ sizes[l] # Zero
    /\ currentSizes # <<>>
    /\ calls = <<>>

\* C19: in every request passed to onAdd a label with a non-zero quantity
\* belongs to the catalog of the request's type.
C19_RequestSizesOfOwnType ==
    \A i \in OnAdds(calls) :
        \A l \in AllLabels :
            calls[i].arg.sizes[l] # Zero
                => l \in Range(Catalog(calls[i].arg.type))

\* a shoes request went out after stock had been entered for a clothing size:
\* the clothing size carries 0 in it
C19_Witness ==
    \E i \in OnAdds(calls) :
        /\ calls[i].arg.type = "shoes"
        /\ \E l \in Range(clothingSizes) :
               sizes[l] # Zero /\ calls[i].arg.sizes[l] = Zero


\* a step in which the function f is run on its own
Runs(f) == invoked' # invoked /\ invoked'[1] = f

\* C12: stopCamera run while no stream handle is held changes nothing;
\* run while a handle is held it stops that stream and clears the handle.
\* Either way no handle is held afterwards, so stopCamera run again changes
\* nothing more.
C12_StopCameraIdempotent ==
    [][ Runs("stopCamera")
            => /\ streamRef = 0 => UNCHANGED <<streamRef, streams>>
               /\ streamRef # 0
                      => /\ streams' = [streams EXCEPT ![streamRef] = "stopped"]
                         /\ streamRef' = 0
               /\ Stopped(streamRef', streams')
                      = [streamRef |-> streamRef', streams |-> streams']
               /\ UNCHANGED <<form, videoRef, srcObject, camPending,
                              readsPending, alert, mounted, calls>> ]_vars

\* stopCamera has run on a held stream: the stream is stopped, the handle clear
C12_Witness ==
    /\ invoked[1] = "stopCamera"
    /\ streamRef = 0
    /\ \E i \in DOMAIN streams : streams[i] = "stopped"

\* C16: capturePhoto run while a stream is held stores a non-empty image,
\* stops the stream and clears the handle in that step.
C16_CaptureStoresAndReleases ==
    [][ Runs("capturePhoto") /\ streamRef # 0
            => /\ ImageTruthy(image')
               /\ streams'[streamRef] = "stopped"
               /\ streamRef' = 0 ]_vars

====
